---- MODULE Spec2Model ----
(***************************************************************************)
(* A model of event_bot.py: the Walker+ / Tokyo Art Beat pipeline that     *)
(* records sent events in a Google Sheets ledger and broadcasts the new    *)
(* ones over LINE.                                                         *)
(*                                                                         *)
(* Text is modelled as a sequence of Unicode code points, so that          *)
(* substring tests, concatenation, lower-casing and slicing are computed   *)
(* the way Python computes them on str.                                    *)
(***************************************************************************)
EXTENDS Integers, Sequences, FiniteSets, TLC

(***************************************************************************)
(* Text helpers (Python str semantics).                                    *)
(***************************************************************************)

\* c.lower() for one code point (ASCII letters; the CJK code points used
\* here have no case).
Lower(c) == IF c \in 65..90 THEN c + 32 ELSE c

\* s.lower()
LowerText(s) == [i \in 1..Len(s) |-> Lower(s[i])]

\* k in s   (substring test; the empty string is in every string)
Contains(s, k) ==
  \E i \in 0..(Len(s) - Len(k)) : SubSeq(s, i + 1, i + Len(k)) = k

\* any(x in u for x in keys)
AnyIn(keys, u) == \E j \in 1..Len(keys) : Contains(u, keys[j])

SetMin(S) == CHOOSE x \in S : \A y \in S : x <= y

(***************************************************************************)
(* Region classifier: PREF_KEYWORD_MAP and map_venue_to_prefecture.        *)
(* The four regions are the texts 東京, 神奈川, 千葉, 埼玉 (as code points). *)
(***************************************************************************)

Tokyo == <<26481, 20140>>
Kanagawa == <<31070, 22856, 24029>>
Chiba == <<21315, 33865>>
Saitama == <<22524, 29577>>

PREF_KEYWORD_MAP ==
  <<
    [pref |-> Tokyo, keys |->
     <<<<26481, 20140, 37117>>, <<26481, 20140>>, <<19978, 37326>>, <<20845, 26412, 26408>>,
       <<37504, 24231>>, <<26032, 23487>>, <<27973, 33609>>, <<28171, 35895>>,
       <<27744, 34955>>, <<12362, 21488, 22580>>, <<21697, 24029>>, <<20024, 12398, 20869>>,
       <<26085, 27604, 35895>>, <<26377, 27005, 30010>>,
       <<22269, 31435, 26032, 32654, 34899, 39208>>,
       <<26481, 20140, 37117, 32654, 34899, 39208>>,
       <<22269, 31435, 35199, 27915, 32654, 34899, 39208>>, <<26862, 32654, 34899, 39208>>,
       <<20845, 26412, 26408, 12511, 12517, 12540, 12472, 12450, 12512>>, <<77, 77, 77>>,
       <<12513, 12478, 12531, 12539, 12487, 12539, 12511, 12517, 12476>>,
       <<12473, 12459, 12452, 12484, 12522, 12540>>>>],
    [pref |-> Kanagawa, keys |->
     <<<<27178, 27996>>, <<24029, 23822>>, <<37772, 20489>>, <<34276, 27810>>,
       <<30456, 27169, 21407>>, <<31665, 26681>>, <<26032, 27178, 27996>>,
       <<12415, 12394, 12392, 12415, 12425, 12356>>, <<27178, 27996, 32654, 34899, 39208>>,
       <<27178, 27996, 24066>>, <<27178, 27996, 28207>>>>],
    [pref |-> Chiba, keys |->
     <<<<24149, 24373>>, <<21315, 33865>>, <<25104, 30000>>, <<33337, 27211>>,
       <<24066, 24029>>, <<28006, 23433>>, <<24149, 24373, 12513, 12483, 12475>>,
       <<24149, 24373, 26032, 37117, 24515>>, <<25151, 32207>>,
       <<28023, 27996, 24149, 24373>>>>],
    [pref |-> Saitama, keys |->
     <<<<22524, 29577>>, <<22823, 23470>>, <<25152, 27810>>, <<24029, 36234>>,
       <<36234, 35895>>, <<31209, 29238>>, <<29066, 35895>>, <<29421, 23665>>,
       <<20837, 38291>>, <<39151, 33021>>, <<25152, 27810>>, <<12373, 12356, 12383, 12414>>>>]
  >>

URL_TOKEN_MAP ==
  <<
    [pref |-> Kanagawa, keys |->
     <<<<121, 111, 107, 111, 104, 97, 109, 97>>, <<107, 97, 110, 97, 103, 97, 119, 97>>,
       <<107, 97, 119, 97, 115, 97, 107, 105>>,
       <<115, 97, 103, 97, 109, 105, 104, 97, 114, 97>>,
       <<121, 111, 107, 111, 115, 117, 107, 97>>>>],
    [pref |-> Chiba, keys |->
     <<<<109, 97, 107, 117, 104, 97, 114, 105>>, <<99, 104, 105, 98, 97>>,
       <<110, 97, 114, 105, 116, 97>>, <<102, 117, 110, 97, 98, 97, 115, 104, 105>>,
       <<117, 114, 97, 121, 97, 115, 117>>, <<115, 97, 107, 117, 114, 97>>>>],
    [pref |-> Saitama, keys |->
     <<<<115, 97, 105, 116, 97, 109, 97>>, <<111, 109, 105, 121, 97>>,
       <<107, 97, 119, 97, 103, 111, 101>>,
       <<116, 111, 107, 111, 114, 111, 122, 97, 119, 97>>, <<104, 97, 110, 110, 111>>,
       <<104, 97, 110, 110, 111>>>>],
    [pref |-> Tokyo, keys |->
     <<<<116, 111, 107, 121, 111>>, <<114, 111, 112, 112, 111, 110, 103, 105>>,
       <<103, 105, 110, 122, 97>>, <<97, 115, 97, 107, 117, 115, 97>>,
       <<117, 101, 110, 111>>, <<115, 104, 105, 98, 117, 121, 97>>,
       <<115, 104, 105, 110, 106, 117, 107, 117>>, <<116, 111, 99, 104, 111>>>>]
  >>

\* The value Python's None / "" takes where a region is expected.
NoPref == <<>>

\* The first region, in declaration order, one of whose keywords (lower-cased)
\* occurs in the lower-cased venue; NoPref when none does.
KeywordPref(v) ==
  LET hits == {i \in 1..Len(PREF_KEYWORD_MAP) :
                 \E j \in 1..Len(PREF_KEYWORD_MAP[i].keys) :
                    Contains(v, LowerText(PREF_KEYWORD_MAP[i].keys[j]))}
  IN  IF hits = {} THEN NoPref ELSE PREF_KEYWORD_MAP[SetMin(hits)].pref

\* The first region, in the order of the if-chain, one of whose English tokens
\* occurs in the lower-cased URL; NoPref when none does.
UrlPref(u) ==
  LET hits == {i \in 1..Len(URL_TOKEN_MAP) : AnyIn(URL_TOKEN_MAP[i].keys, u)}
  IN  IF hits = {} THEN NoPref ELSE URL_TOKEN_MAP[SetMin(hits)].pref

\* The trailing "explicit kanji" chain on the raw venue.
KanjiPref(venue) ==
  IF Contains(venue, Kanagawa) THEN Kanagawa
  ELSE IF Contains(venue, Chiba) THEN Chiba
  ELSE IF Contains(venue, Saitama) THEN Saitama
  ELSE IF Contains(venue, Tokyo) THEN Tokyo
  ELSE NoPref

\* A classifier that consults the URL hint before the venue keywords.
map_venue_url_first(venue, official_url) ==
  LET byUrl == IF official_url # <<>> THEN UrlPref(LowerText(official_url)) ELSE NoPref
      byKw  == IF venue # <<>> THEN KeywordPref(LowerText(venue)) ELSE NoPref
  IN  IF byUrl # NoPref THEN byUrl
      ELSE IF byKw # NoPref THEN byKw
      ELSE KanjiPref(venue)

map_venue_to_prefecture(venue, official_url) ==
  LET byKw  == IF venue # <<>> THEN KeywordPref(LowerText(venue)) ELSE NoPref
      byUrl == IF official_url # <<>> THEN UrlPref(LowerText(official_url)) ELSE NoPref
  IN  IF byKw # NoPref THEN byKw
      ELSE IF byUrl # NoPref THEN byUrl
      ELSE KanjiPref(venue)

(***************************************************************************)
(* Text constants of the script.                                           *)
(***************************************************************************)

\* f"📍 {pref} の新着イベント 🎪"
Banner(pref) ==
  <<128205, 32>> \o pref
    \o <<32, 12398, 26032, 30528, 12452, 12505, 12531, 12488, 32, 127914>>

\* ["送信日", "イベント名", "開催期間", "URL", "会場"]
HeaderRow ==
  << <<36865, 20449, 26085>>, <<12452, 12505, 12531, 12488, 21517>>,
     <<38283, 20652, 26399, 38291>>, <<85, 82, 76>>, <<20250, 22580>> >>

\* datetime.now().strftime("%Y-%m-%d"): the day of the run, "2026-11-04".
Today == <<50, 48, 50, 54, 45, 49, 49, 45, 48, 52>>

IsSpace(c) == c \in {9, 10, 11, 12, 13, 32}

\* s.strip()
Strip(s) ==
  IF \A k \in 1..Len(s) : IsSpace(s[k]) THEN <<>>
  ELSE LET lo == CHOOSE k \in 1..Len(s) :
                   ~IsSpace(s[k]) /\ \A m \in 1..(k - 1) : IsSpace(s[m])
           hi == CHOOSE k \in 1..Len(s) :
                   ~IsSpace(s[k]) /\ \A m \in (k + 1)..Len(s) : IsSpace(s[m])
       IN  SubSeq(s, lo, hi)

\* s[:n]
Take(s, n) == SubSeq(s, 1, IF Len(s) < n THEN Len(s) ELSE n)

\* a or b   (on str: the first non-empty one)
Or(a, b) == IF a # <<>> THEN a ELSE b

IsDigit(c) == c \in 48..57

\* re.match(r"\d{4}-\d{2}-\d{2}", d)
IsoDatePrefix(d) ==
  /\ Len(d) >= 10
  /\ \A k \in {1, 2, 3, 4, 6, 7, 9, 10} : IsDigit(d[k])
  /\ d[5] = 45 /\ d[8] = 45

\* An event dict; a key that is absent, None or "" is the empty text.
NoEvent ==
  [name |-> <<>>, start |-> <<>>, end |-> <<>>, startDate |-> <<>>,
   endDate |-> <<>>, venue |-> <<>>, locname |-> <<>>, official_url |-> <<>>,
   url |-> <<>>]

(***************************************************************************)
(* The ledger: a worksheet, a sequence of rows of five cells.              *)
(***************************************************************************)

\* sheet.col_values(4)
col_values4(sheet) == [k \in 1..Len(sheet) |-> sheet[k][4]]

Range(s) == {s[k] : k \in 1..Len(s)}

\* A check that reports a duplicate when the column cannot be read.
already_sent_fail_closed(event_url, sheet, readOk) ==
  IF event_url = <<>> THEN FALSE
  ELSE IF readOk THEN event_url \in Range(col_values4(sheet))
  ELSE TRUE

\* already_sent(event_url, sheet); readOk = FALSE when col_values raises.
already_sent(event_url, sheet, readOk) ==
  IF event_url = <<>> THEN FALSE
  ELSE IF readOk THEN event_url \in Range(col_values4(sheet))
  ELSE FALSE

\* norm(d) of save_event
norm(d) == IF d = <<>> THEN <<>> ELSE IF IsoDatePrefix(d) THEN Take(d, 10) ELSE d

\* A key column that records the event's name.
save_url_name(event) == event.name

\* url = event.get("official_url") or event.get("url") or ""
save_url(event) == Or(event.official_url, event.url)

\* The row save_event appends: [today, name, period, url, venue].
save_row(event) ==
  LET start  == Or(event.start, event.startDate)
      end    == Or(event.end, event.endDate)
      period == IF start # <<>> /\ end # <<>>
                THEN norm(start) \o <<32, 65374, 32>> \o norm(end)
                ELSE IF start # <<>> THEN norm(start) ELSE <<>>
  IN  << Today, event.name, period, save_url(event), event.venue >>

\* save_event(sheet, event); writeOk = FALSE when append_row raises (swallowed).
save_event(sheet, event, writeOk) ==
  IF writeOk THEN Append(sheet, save_row(event)) ELSE sheet

(***************************************************************************)
(* Message formatting and chunking.                                        *)
(***************************************************************************)

format_event_message(ev) ==
  LET name      == Strip(ev.name)
      start     == Or(ev.start, Take(ev.startDate, 10))
      end       == Or(ev.end, Take(ev.endDate, 10))
      date_line == IF start # <<>> /\ end # <<>>
                   THEN start \o <<32, 65374, 32>> \o end
                   ELSE start
      venue     == Or(ev.venue, ev.locname)
      url       == Or(ev.official_url, ev.url)
  IN  <<127914, 32>> \o name \o <<10, 128197, 32>> \o date_line
        \o <<10, 128205, 32>> \o venue \o <<10, 128279, 32>> \o url

RECURSIVE JoinFrom(_, _)
JoinFrom(bucket, k) ==
  IF k > Len(bucket) THEN <<>>
  ELSE IF k = Len(bucket) THEN bucket[k]
  ELSE bucket[k] \o <<10, 10>> \o JoinFrom(bucket, k + 1)

\* "\n\n".join(bucket)
Join(bucket) == JoinFrom(bucket, 1)

CHUNK_SIZE == 3500

\* Slices that overlap by one character.
ChunksOverlap(combined) ==
  LET n == (Len(combined) + CHUNK_SIZE - 1) \div CHUNK_SIZE
  IN  [k \in 1..n |->
         SubSeq(combined, (k - 1) * CHUNK_SIZE + 1,
                IF k * CHUNK_SIZE + 1 > Len(combined) THEN Len(combined)
                ELSE k * CHUNK_SIZE + 1)]

\* [combined[i:i+CHUNK_SIZE] for i in range(0, len(combined), CHUNK_SIZE)]
Chunks(combined) ==
  LET starts == {s \in 0..(Len(combined) - 1) : s % CHUNK_SIZE = 0}
  IN  [k \in 1..Cardinality(starts) |->
         LET s == (k - 1) * CHUNK_SIZE
         IN  SubSeq(combined, s + 1,
                    IF s + CHUNK_SIZE > Len(combined) THEN Len(combined)
                    ELSE s + CHUNK_SIZE)]

PER_PREF_LIMIT == 10

\* A cap test that lets one more event through.
cap_reached_late(count) == count > PER_PREF_LIMIT

\* new_count >= PER_PREF_LIMIT (and tab_new_count >= 10)
cap_reached(count) == count >= PER_PREF_LIMIT

TAB_MAX_ITEMS == 10

TAB_LIMIT == 10

\* tab_new_count >= 10
tab_cap_reached(count) == count >= TAB_LIMIT

\* A dedupe key that ignores the official URL.
dedupe_key_name_first(ev) == ev.name \o <<95>> \o ev.start

\* dedupe_key = ev.get("official_url") or (name + "_" + start)
dedupe_key(ev) == Or(ev.official_url, ev.name \o <<95>> \o ev.start)

\* prefectures.keys(): the order of the Walker+ pass.
prefectures == <<Tokyo, Kanagawa, Chiba, Saitama>>

\* order: the order of the dispatch loop.
order == <<Tokyo, Kanagawa, Chiba, Saitama>>

MAX_PAGES == 2

(***************************************************************************)
(* Bounds of the model and the source contents the runs are checked on.    *)
(***************************************************************************)

\* The longest Walker+ page.
MaxPage == 8

\* Transport / ledger failures injected over the runs of one behaviour.
MaxFaults == 1

\* Runs of main() in one behaviour (a second run sees the first's ledger).
MaxRuns == 2


\* first, first+1, ..., first+n-1
Listing(first, n) == [k \in 1..n |-> first + k - 1]

\* The id of the event every region other than the focus region lists.
SharedId == 3 * MaxPage

\* The JSON-LD Event objects of Walker+, by id; event 0 carries no url and
\* event 2 carries ISO date-times.
WalkerObject(id) ==
  [NoEvent EXCEPT
     !.name = <<78, 64 + id>>,
     !.url = IF id = 0 THEN <<>> ELSE <<119, 64 + id>>,
     !.startDate = IF id = 2
                   THEN <<50, 48, 50, 54, 45, 49, 50, 45, 48, 49, 84, 57>>
                   ELSE <<>>,
     !.endDate = IF id = 2
                 THEN <<50, 48, 50, 54, 45, 49, 50, 45, 48, 50>>
                 ELSE <<>>,
     !.locname = IF id = 1 THEN <<76>> ELSE <<>>]

\* The events one Walker+ page embeds. The focus region lists 1..a on its
\* first page and a..a+b-1 on its second (the last event of page 1 shows up
\* again on page 2; with a = 0 the page opens with the url-less event 0); every
\* other region lists the shared event, then the url-less one.
WalkerPage(source, pref, pg) ==
  IF pref = source.focus
  THEN IF pg = 1 THEN Listing(1, source.a) ELSE Listing(source.a, source.b)
  ELSE IF pg = 1 THEN Listing(SharedId, 1) ELSE Listing(0, 1)

\* What fetch_tokyoartbeat_officials extracts from a detail page, by item:
\*  1  linked to the url of Walker+ event 1, venue "横浜"
\*  2  no official link, name "B", no date, no venue
\*  3  no official link, name "B", no date, venue "千葉" (another event, same key)
\*  4  linked to "http://saitama", no venue
TabItem(id) ==
  CASE id = 1 -> [NoEvent EXCEPT !.name = <<65>>,
                    !.start = <<50, 48, 50, 54, 45, 48, 53, 45, 48, 49>>,
                    !.end = <<50, 48, 50, 54, 45, 48, 53, 45, 51, 49>>,
                    !.venue = <<27178, 27996>>,
                    !.official_url = <<119, 65>>]
    [] id = 2 -> [NoEvent EXCEPT !.name = <<66>>]
    [] id = 3 -> [NoEvent EXCEPT !.name = <<66>>, !.venue = <<21315, 33865>>]
    [] OTHER  -> [NoEvent EXCEPT !.name = <<67>>,
                    !.official_url = <<104, 116, 116, 112, 58, 47, 47, 115, 97,
                                       105, 116, 97, 109, 97>>]

\* The detail links the Tokyo Art Beat listing page may carry.
TabLists == { <<>>, <<1, 4>>, <<2, 3>>, <<4, 2, 4>> }

\* uniq_preserve(seq)
RECURSIVE uniq_preserve(_)
uniq_preserve(seq) ==
  IF seq = <<>> THEN <<>>
  ELSE LET init == uniq_preserve(SubSeq(seq, 1, Len(seq) - 1))
           x    == seq[Len(seq)]
       IN  IF x \in Range(init) THEN init ELSE Append(init, x)

\* The ledger before the first run: no worksheet yet, a worksheet holding the
\* header only, or one that also records Walker+ event 1 and the name-keyed
\* Tokyo Art Beat event.
PriorLedgers ==
  { <<>>,
    <<HeaderRow>>,
    <<HeaderRow,
      save_row([NoEvent EXCEPT !.name = <<78, 65>>, !.url = <<119, 65>>,
                               !.venue = <<76>>]),
      save_row([NoEvent EXCEPT !.name = <<66>>, !.url = <<66, 95>>])>> }

(***************************************************************************)
(* State.                                                                  *)
(***************************************************************************)
VARIABLES
  SPREADSHEET_ID,      \* whether the environment sets it
  GOOGLE_CREDENTIALS,  \* whether the environment sets it
  LINE_ACCESS_TOKEN,   \* whether the environment sets it
  source,              \* what the two sites serve: [focus, a, b, tab]
  sheet,               \* the rows of worksheet "sent_events"; <<>>: no worksheet
  pc,                  \* where main() is
  run,                 \* which run of main() this is
  faults,              \* transport and ledger failures so far
  pref,                \* index of the region of the Walker+ pass
  page,                \* page being fetched by fetch_walkerplus_events
  events,              \* events of fetch_walkerplus_events (ids)
  i,                   \* position of the for-loop over events / tab_events
  new_count,
  paths,               \* paths[:max_items] of fetch_tokyoartbeat_officials
  j,                   \* position of the for-loop over paths
  results,             \* results of fetch_tokyoartbeat_officials (ids)
  tab_new_count,
  messages_map,
  d,                   \* position of the dispatch loop in order
  parts,
  part,                \* position of the for-loop over parts
  any_sent,
  calls,               \* history: the chunks handed to send_line_broadcast
  hist,                \* history: the appends to buckets of this run
  checked,             \* history: the latest already_sent call
  capCut,              \* history: a pass broke off at its cap, events left over
  prevKeys,            \* history: the keys bucketed by earlier runs
  prevCut,             \* history: capCut of the run before
  abortCause,          \* history: why main() raised
  net,                 \* history: the kinds of network activity of this run
  arg_venue,           \* map_venue_to_prefecture called on its own: venue
  arg_url,             \*   official_url
  ret_pref,            \*   its result
  classified           \*   whether it has returned

envVars      == <<SPREADSHEET_ID, GOOGLE_CREDENTIALS, LINE_ACCESS_TOKEN, source>>
walkerVars   == <<pref, page, events, new_count>>
tabVars      == <<paths, j, results, tab_new_count>>
dispatchVars == <<d, parts, part, any_sent, calls>>
prevVars     == <<prevKeys, prevCut>>
classifyVars == <<arg_venue, arg_url, ret_pref, classified>>

vars ==
  <<envVars, sheet, pc, run, faults, walkerVars, i, tabVars, messages_map,
    dispatchVars, hist, checked, capCut, prevVars, abortCause, net, classifyVars>>

NoCheck == [key |-> <<>>, read |-> "none", dup |-> FALSE]

NoMap == [p \in Range(prefectures) |-> <<>>]

\* The locals of main() before it runs.
Locals ==
  /\ pc = "start"
  /\ faults = 0
  /\ pref = 1 /\ page = 1 /\ events = <<>> /\ i = 0 /\ new_count = 0
  /\ paths = <<>> /\ j = 0 /\ results = <<>> /\ tab_new_count = 0
  /\ messages_map = NoMap
  /\ d = 0 /\ parts = <<>> /\ part = 0 /\ any_sent = FALSE /\ calls = <<>>
  /\ hist = <<>> /\ checked = NoCheck /\ capCut = FALSE
  /\ abortCause = "none" /\ net = {}

\* Short listings: the first region lists at most one event a page, and the
\* Tokyo Art Beat listing is any of TabLists.
ShortSources == [focus : {Tokyo}, a : {0, 1}, b : {0, 1}, tab : TabLists]

\* Long listings: the first or the last region lists MaxPage events on its
\* first page and none or MaxPage on its second.
LongSources ==
  [focus : {Tokyo, Saitama}, a : {MaxPage}, b : {0, MaxPage}, tab : {<<2, 3>>}]

\* Every environment, prior ledger and short listing; the long listings under
\* the full configuration.
Init ==
  /\ SPREADSHEET_ID \in BOOLEAN
  /\ GOOGLE_CREDENTIALS \in BOOLEAN
  /\ LINE_ACCESS_TOKEN \in BOOLEAN
  /\ source \in ShortSources \cup LongSources
  /\ source \in LongSources =>
       SPREADSHEET_ID /\ GOOGLE_CREDENTIALS /\ LINE_ACCESS_TOKEN
  /\ sheet \in PriorLedgers
  /\ run = 1
  /\ prevKeys = {} /\ prevCut = FALSE
  /\ Locals
  /\ arg_venue = <<>> /\ arg_url = <<>> /\ ret_pref = NoPref
  /\ classified = FALSE

\* The outcomes an external call may have: it may fail while the budget lasts.
Outcomes == IF faults < MaxFaults THEN {TRUE, FALSE} ELSE {TRUE}

Cost(ok) == IF ok THEN 0 ELSE 1

(***************************************************************************)
(* main(), step by step.                                                   *)
(***************************************************************************)

\* sheet = init_sheet(), then the buckets are made. A missing SPREADSHEET_ID
\* raises RuntimeError and a missing GOOGLE_CREDENTIALS raises KeyError, both
\* before any request; a missing worksheet is created with the header row.
\* LINE_ACCESS_TOKEN is not looked at here. (Errors of the Sheets API while the
\* sheet is opened are left out: no property below is about them.)
InitSheet ==
  /\ pc = "start"
  /\ IF ~SPREADSHEET_ID \/ ~GOOGLE_CREDENTIALS
     THEN /\ pc' = "aborted"
          /\ abortCause' = "config"
          /\ UNCHANGED <<sheet, messages_map, net>>
     ELSE /\ pc' = "wfetch"
          /\ sheet' = IF sheet = <<>> THEN <<HeaderRow>> ELSE sheet
          /\ messages_map' = [p \in Range(prefectures) |-> <<Banner(p)>>]
          /\ net' = net \cup {"ledger"}
          /\ UNCHANGED abortCause
  /\ UNCHANGED <<envVars, run, faults, walkerVars, i, tabVars, dispatchVars,
                 hist, checked, capCut, prevVars, classifyVars>>

\* One iteration of the page loop of fetch_walkerplus_events: a failed request
\* is logged and the page skipped. After the last page the event loop starts.
WalkerFetch ==
  /\ pc = "wfetch"
  /\ \E ok \in Outcomes :
       /\ events' = IF ok
                    THEN events \o WalkerPage(source, prefectures[pref], page)
                    ELSE events
       /\ faults' = faults + Cost(ok)
  /\ net' = net \cup {"fetch"}
  /\ IF page < MAX_PAGES
     THEN page' = page + 1 /\ UNCHANGED <<pc, i, new_count>>
     ELSE pc' = "wloop" /\ i' = 1 /\ new_count' = 0 /\ UNCHANGED page
  /\ UNCHANGED <<envVars, sheet, run, pref, tabVars, messages_map, dispatchVars,
                 hist, checked, capCut, prevVars, abortCause, classifyVars>>

\* One iteration of "for ev in events" of the Walker+ pass.
WalkerEvent ==
  /\ pc = "wloop" /\ i <= Len(events)
  /\ LET ev      == WalkerObject(events[i])
         url_key == ev.url
         p       == prefectures[pref]
         msg     == format_event_message(
                      [NoEvent EXCEPT !.name = ev.name,
                                      !.startDate = ev.startDate,
                                      !.endDate = ev.endDate,
                                      !.locname = ev.locname,
                                      !.official_url = ev.url])
         row     == [NoEvent EXCEPT !.name = ev.name,
                                    !.startDate = ev.startDate,
                                    !.endDate = ev.endDate,
                                    !.url = url_key,
                                    !.venue = ev.locname]
     IN  IF url_key = <<>>
         THEN /\ i' = i + 1
              /\ checked' = NoCheck
              /\ UNCHANGED <<sheet, faults, new_count, messages_map, hist,
                             capCut, net>>
         ELSE \E readOk \in Outcomes :
                LET dup == already_sent(url_key, sheet, readOk)
                IN  /\ checked' = [key |-> url_key,
                                   read |-> IF readOk THEN "ok" ELSE "fail",
                                   dup |-> dup]
                    /\ net' = net \cup {"ledger"}
                    /\ IF dup
                       THEN /\ i' = i + 1
                            /\ faults' = faults + Cost(readOk)
                            /\ UNCHANGED <<sheet, new_count, messages_map, hist,
                                           capCut>>
                       ELSE \E writeOk \in BOOLEAN :
                              /\ faults + Cost(readOk) + Cost(writeOk) <= MaxFaults
                              /\ faults' = faults + Cost(readOk) + Cost(writeOk)
                              /\ messages_map' =
                                   [messages_map EXCEPT ![p] = Append(@, msg)]
                              /\ sheet' = save_event(sheet, row, writeOk)
                              /\ hist' = Append(hist,
                                   [key |-> url_key, pref |-> p, pass |-> "walker",
                                    pos |-> Len(messages_map[p]) + 1,
                                    saved |-> writeOk])
                              /\ new_count' = new_count + 1
                              /\ IF cap_reached(new_count + 1)
                                 THEN /\ i' = Len(events) + 1
                                      /\ capCut' = (capCut \/ i < Len(events))
                                 ELSE /\ i' = i + 1
                                      /\ UNCHANGED capCut
  /\ UNCHANGED <<envVars, pc, run, pref, page, events, tabVars, dispatchVars,
                 prevVars, abortCause, classifyVars>>

\* The event loop of a region is over: the next region, or Tokyo Art Beat.
WalkerNext ==
  /\ pc = "wloop" /\ i > Len(events)
  /\ IF pref < Len(prefectures)
     THEN /\ pref' = pref + 1
          /\ page' = 1
          /\ events' = <<>>
          /\ pc' = "wfetch"
     ELSE /\ pc' = "tablist"
          /\ UNCHANGED <<pref, page, events>>
  /\ i' = 0
  /\ UNCHANGED <<envVars, sheet, run, faults, new_count, tabVars, messages_map,
                 dispatchVars, hist, checked, capCut, prevVars, abortCause, net,
                 classifyVars>>

\* The head of fetch_tokyoartbeat_officials: get_soup(list_url) stands outside
\* every try, so a failed request raises through main(); otherwise the detail
\* links are filtered, made unique and cut to max_items.
TabList ==
  /\ pc = "tablist"
  /\ net' = net \cup {"fetch"}
  /\ \E ok \in Outcomes :
       /\ faults' = faults + Cost(ok)
       /\ IF ok
          THEN /\ paths' = Take(uniq_preserve(source.tab), TAB_MAX_ITEMS)
               /\ results' = <<>>
               /\ j' = 1
               /\ pc' = "tabdetail"
               /\ UNCHANGED abortCause
          ELSE /\ pc' = "aborted"
               /\ abortCause' = "fetch"
               /\ UNCHANGED <<paths, results, j>>
  /\ UNCHANGED <<envVars, sheet, run, walkerVars, i, tab_new_count, messages_map,
                 dispatchVars, hist, checked, capCut, prevVars, classifyVars>>

\* One iteration of "for rel in paths[:max_items]": a failed detail request is
\* logged and the item skipped. The politeness pause after an item changes no
\* state and is part of the step.
TabDetail ==
  /\ pc = "tabdetail" /\ j <= Len(paths)
  /\ net' = net \cup {"fetch"}
  /\ \E ok \in Outcomes :
       /\ faults' = faults + Cost(ok)
       /\ results' = IF ok THEN Append(results, paths[j]) ELSE results
  /\ j' = j + 1
  /\ UNCHANGED <<envVars, sheet, pc, run, walkerVars, i, paths, tab_new_count,
                 messages_map, dispatchVars, hist, checked, capCut, prevVars,
                 abortCause, classifyVars>>

\* fetch_tokyoartbeat_officials returns; the loop over tab_events starts.
TabFetched ==
  /\ pc = "tabdetail" /\ j > Len(paths)
  /\ pc' = "tabloop"
  /\ i' = 1
  /\ tab_new_count' = 0
  /\ UNCHANGED <<envVars, sheet, run, faults, walkerVars, paths, j, results,
                 messages_map, dispatchVars, hist, checked, capCut, prevVars,
                 abortCause, net, classifyVars>>

\* One iteration of "for ev in tab_events".
TabEvent ==
  /\ pc = "tabloop" /\ i <= Len(results)
  /\ LET ev   == TabItem(results[i])
         m    == map_venue_to_prefecture(ev.venue, ev.official_url)
         p    == IF m = NoPref THEN Tokyo ELSE m
         key  == dedupe_key(ev)
         msg  == format_event_message(ev)
         row  == [ev EXCEPT !.url = key]
     IN  IF key = <<>>
         THEN /\ i' = i + 1
              /\ checked' = NoCheck
              /\ UNCHANGED <<sheet, faults, tab_new_count, messages_map, hist,
                             capCut, net>>
         ELSE \E readOk \in Outcomes :
                LET dup == already_sent(key, sheet, readOk)
                IN  /\ checked' = [key |-> key,
                                   read |-> IF readOk THEN "ok" ELSE "fail",
                                   dup |-> dup]
                    /\ net' = net \cup {"ledger"}
                    /\ IF dup
                       THEN /\ i' = i + 1
                            /\ faults' = faults + Cost(readOk)
                            /\ UNCHANGED <<sheet, tab_new_count, messages_map,
                                           hist, capCut>>
                       ELSE \E writeOk \in BOOLEAN :
                              /\ faults + Cost(readOk) + Cost(writeOk) <= MaxFaults
                              /\ faults' = faults + Cost(readOk) + Cost(writeOk)
                              /\ messages_map' =
                                   [messages_map EXCEPT ![p] = Append(@, msg)]
                              /\ sheet' = save_event(sheet, row, writeOk)
                              /\ hist' = Append(hist,
                                   [key |-> key, pref |-> p, pass |-> "tab",
                                    pos |-> Len(messages_map[p]) + 1,
                                    saved |-> writeOk])
                              /\ tab_new_count' = tab_new_count + 1
                              /\ IF tab_cap_reached(tab_new_count + 1)
                                 THEN /\ i' = Len(results) + 1
                                      /\ capCut' = (capCut \/ i < Len(results))
                                 ELSE /\ i' = i + 1
                                      /\ UNCHANGED capCut
  /\ UNCHANGED <<envVars, pc, run, walkerVars, paths, j, results, dispatchVars,
                 prevVars, abortCause, classifyVars>>

\* The loop over tab_events is over: the dispatch loop starts.
TabNext ==
  /\ pc = "tabloop" /\ i > Len(results)
  /\ pc' = "dispatch"
  /\ d' = 1
  /\ i' = 0
  /\ UNCHANGED <<envVars, sheet, run, faults, walkerVars, tabVars, messages_map,
                 parts, part, any_sent, calls, hist, checked, capCut, prevVars,
                 abortCause, net, classifyVars>>

\* One iteration of "for pref in order" up to the chunk loop: a bucket that
\* holds its banner only is skipped, any other is joined and sliced.
DispatchBucket ==
  /\ pc = "dispatch" /\ d <= Len(order)
  /\ LET bucket == messages_map[order[d]]
     IN  IF Len(bucket) <= 1
         THEN d' = d + 1 /\ UNCHANGED <<pc, parts, part>>
         ELSE /\ parts' = Chunks(Join(bucket))
              /\ part' = 1
              /\ pc' = "send"
              /\ UNCHANGED d
  /\ UNCHANGED <<envVars, sheet, run, faults, walkerVars, i, tabVars,
                 messages_map, any_sent, calls, hist, checked, capCut, prevVars,
                 abortCause, net, classifyVars>>

\* send_line_broadcast(p): without LINE_ACCESS_TOKEN it logs and returns;
\* with it the chunk is posted (an error of the post is logged, no more).
Send ==
  /\ pc = "send"
  /\ calls' = Append(calls, parts[part])
  /\ net' = IF LINE_ACCESS_TOKEN THEN net \cup {"dispatch"} ELSE net
  /\ pc' = "sleep"
  /\ UNCHANGED <<envVars, sheet, run, faults, walkerVars, i, tabVars,
                 messages_map, d, parts, part, any_sent, hist, checked, capCut,
                 prevVars, abortCause, classifyVars>>

\* time.sleep(1) after each chunk; after the last one the bucket is done.
Sleep ==
  /\ pc = "sleep"
  /\ IF part < Len(parts)
     THEN part' = part + 1 /\ pc' = "send" /\ UNCHANGED <<d, parts, any_sent>>
     ELSE /\ any_sent' = TRUE
          /\ d' = d + 1
          /\ parts' = <<>>
          /\ part' = 0
          /\ pc' = "dispatch"
  /\ UNCHANGED <<envVars, sheet, run, faults, walkerVars, i, tabVars,
                 messages_map, calls, hist, checked, capCut, prevVars,
                 abortCause, net, classifyVars>>

\* The dispatch loop is over: main() returns.
Finish ==
  /\ pc = "dispatch" /\ d > Len(order)
  /\ pc' = "done"
  /\ UNCHANGED <<envVars, sheet, run, faults, walkerVars, i, tabVars,
                 messages_map, dispatchVars, hist, checked, capCut, prevVars,
                 abortCause, net, classifyVars>>

\* The script is started again after a run that met no failure: the sites
\* serve what they served and the worksheet is as the run left it.
Rerun ==
  /\ pc = "done" /\ run < MaxRuns /\ faults = 0
  /\ run' = run + 1
  /\ prevKeys' = prevKeys \cup {hist[k].key : k \in 1..Len(hist)}
  /\ prevCut' = capCut
  /\ pc' = "start"
  /\ pref' = 1 /\ page' = 1 /\ events' = <<>> /\ i' = 0 /\ new_count' = 0
  /\ paths' = <<>> /\ j' = 0 /\ results' = <<>> /\ tab_new_count' = 0
  /\ messages_map' = NoMap
  /\ d' = 0 /\ parts' = <<>> /\ part' = 0 /\ any_sent' = FALSE /\ calls' = <<>>
  /\ hist' = <<>> /\ checked' = NoCheck /\ capCut' = FALSE
  /\ abortCause' = "none" /\ net' = {}
  /\ UNCHANGED <<envVars, sheet, faults, classifyVars>>

Next ==
  \/ InitSheet
  \/ WalkerFetch
  \/ WalkerEvent
  \/ WalkerNext
  \/ TabList
  \/ TabDetail
  \/ TabFetched
  \/ TabEvent
  \/ TabNext
  \/ DispatchBucket
  \/ Send
  \/ Sleep
  \/ Finish
  \/ Rerun

Spec == Init /\ [][Next]_vars

(***************************************************************************)
(* map_venue_to_prefecture on its own, over bounded venues and URL hints.  *)
(***************************************************************************)

\* The longest venue text.
MaxVenueLen == 4

\* The characters venues are made of: 横 浜 東 京 新.
VenueChars == {27178, 27996, 26481, 20140, 26032}

Venues ==
  UNION {[1..n -> VenueChars] : n \in 0..MaxVenueLen}

\* "", "tokyo", "Saitama", "chiba", "yokohama"
UrlHints ==
  { <<>>,
    <<116, 111, 107, 121, 111>>,
    <<83, 97, 105, 116, 97, 109, 97>>,
    <<99, 104, 105, 98, 97>>,
    <<121, 111, 107, 111, 104, 97, 109, 97>> }

\* The state away from any run of main().
Idle ==
  /\ SPREADSHEET_ID = TRUE /\ GOOGLE_CREDENTIALS = TRUE
  /\ LINE_ACCESS_TOKEN = TRUE
  /\ source = [focus |-> Tokyo, a |-> 0, b |-> 0, tab |-> <<>>]
  /\ sheet = <<>>
  /\ run = 1
  /\ prevKeys = {} /\ prevCut = FALSE
  /\ Locals

InitClassify ==
  /\ Idle
  /\ arg_venue \in Venues
  /\ arg_url \in UrlHints
  /\ ret_pref = NoPref
  /\ classified = FALSE

Classify ==
  /\ ~classified
  /\ ret_pref' = map_venue_to_prefecture(arg_venue, arg_url)
  /\ classified' = TRUE
  /\ UNCHANGED <<envVars, sheet, pc, run, faults, walkerVars, i, tabVars,
                 messages_map, dispatchVars, hist, checked, capCut, prevVars,
                 abortCause, net, arg_venue, arg_url>>

NextClassify == Classify

SpecClassify == InitClassify /\ [][NextClassify]_vars

(***************************************************************************)
(* The dispatch loop on its own, from buckets that hold one long message.  *)
(***************************************************************************)

\* Whole chunks the combined text may span before its remainder.
MaxFullChunks == 2

\* Lengths of the combined text: around each multiple of CHUNK_SIZE.
TextLens ==
  { t \in { q * CHUNK_SIZE + r :
              q \in 0..MaxFullChunks, r \in {0, 1, 1000, CHUNK_SIZE - 1} } :
      t >= 1000 }

\* A name of n characters.
LongName(n) == SubSeq([k \in 1..n |-> 97 + (k % 26)], 1, n)

\* A Walker+ event whose name makes the combined text of its bucket n long.
LongEvent(p, n) ==
  LET overhead == Len(Join(<<Banner(p),
                    format_event_message(
                      [NoEvent EXCEPT !.official_url = <<119, 65>>])>>))
  IN  [NoEvent EXCEPT !.name = LongName(n - overhead), !.url = <<119, 65>>]

\* main() at "for pref in order", after a run that found one new Walker+ event,
\* with a long name, in region p.
InitChunk ==
  /\ SPREADSHEET_ID = TRUE /\ GOOGLE_CREDENTIALS = TRUE
  /\ LINE_ACCESS_TOKEN \in BOOLEAN
  /\ source = [focus |-> Tokyo, a |-> 0, b |-> 0, tab |-> <<>>]
  /\ run = 1
  /\ prevKeys = {} /\ prevCut = FALSE
  /\ faults = 0
  /\ pref = Len(prefectures) /\ page = MAX_PAGES /\ events = <<>> /\ i = 0
  /\ new_count = 0
  /\ paths = <<>> /\ j = 1 /\ results = <<>> /\ tab_new_count = 0
  /\ \E p \in Range(prefectures), n \in TextLens :
       \E ev \in {LongEvent(p, n)} :
           /\ messages_map =
                [q \in Range(prefectures) |->
                   IF q = p
                   THEN <<Banner(q),
                          format_event_message(
                            [NoEvent EXCEPT !.name = ev.name,
                                            !.official_url = ev.url])>>
                   ELSE <<Banner(q)>>]
           /\ sheet = <<HeaderRow, save_row(ev)>>
           /\ hist = <<[key |-> ev.url, pref |-> p, pass |-> "walker",
                        pos |-> 2, saved |-> TRUE]>>
           /\ checked = [key |-> ev.url, read |-> "ok", dup |-> FALSE]
  /\ pc = "dispatch" /\ d = 1
  /\ parts = <<>> /\ part = 0 /\ any_sent = FALSE /\ calls = <<>>
  /\ capCut = FALSE /\ abortCause = "none" /\ net = {"ledger", "fetch"}
  /\ arg_venue = <<>> /\ arg_url = <<>> /\ ret_pref = NoPref
  /\ classified = FALSE

NextChunk ==
  \/ DispatchBucket
  \/ Send
  \/ Sleep
  \/ Finish

SpecChunk == InitChunk /\ [][NextChunk]_vars

(***************************************************************************)
(* Properties.                                                             *)
(***************************************************************************)

RECURSIVE FlatFrom(_, _)
FlatFrom(texts, k) ==
  IF k > Len(texts) THEN <<>> ELSE texts[k] \o FlatFrom(texts, k + 1)

\* The texts of a sequence, one after the other.
Flat(texts) == FlatFrom(texts, 1)

\* How many events a pass appended to the bucket of region p in this run.
Bucketed(p, pass) ==
  Cardinality({k \in 1..Len(hist) : hist[k].pref = p /\ hist[k].pass = pass})

\* How often a key stands in the key column of the ledger.
Recorded(key) == Cardinality({k \in 1..Len(sheet) : sheet[k][4] = key})

\* No external call failed in this behaviour so far.
NoFailure == faults = 0

C2_LedgerRowsDelivered ==
  pc \in {"done", "aborted"} =>
    \A k \in 1..Len(hist) :
      hist[k].saved =>
        /\ LINE_ACCESS_TOKEN
        /\ Contains(Flat(calls), messages_map[hist[k].pref][hist[k].pos])

\* C3 as stated: no failed fetch makes main() raise; a run that raised did so
\* on its configuration.
C3_FetchFailureNeverAborts ==
  pc = "aborted" => abortCause = "config"

NamedKey ==
  IF pc = "tabloop"
  THEN LET ev == TabItem(results[i])
       IN  IF ev.official_url # <<>> THEN ev.official_url
           ELSE ev.name \o <<95>> \o ev.start
  ELSE WalkerObject(events[i]).url

C6_FailOpen ==
  [][ ( /\ \/ pc = "tabloop" /\ i <= Len(results)
           \/ pc = "wloop" /\ i <= Len(events)
        /\ checked'.read = "fail" )
      => /\ ~checked'.dup
         /\ pc' = pc
         /\ Len(hist') = Len(hist) + 1
         /\ LET h == hist'[Len(hist')]
            IN  /\ h.key = checked'.key
                /\ messages_map' =
                     [messages_map EXCEPT
                        ![h.pref] = Append(@, messages_map'[h.pref][h.pos])]
                /\ h.pos = Len(messages_map[h.pref]) + 1
                /\ IF h.saved
                   THEN /\ Len(sheet') = Len(sheet) + 1
                        /\ sheet'[Len(sheet')][4] = h.key
                   ELSE sheet' = sheet
         /\ new_count' + tab_new_count' = new_count + tab_new_count + 1
    ]_vars

\* A read has failed on a key the ledger held, and the event was bucketed and
\* recorded once more.
C6_Witness ==
  /\ checked.read = "fail"
  /\ hist # <<>>
  /\ hist[Len(hist)].key = checked.key
  /\ Recorded(checked.key) >= 2

\* C7 as stated: with any of the three settings missing, main() ends at start
\* without network activity.
C7_ConfigFatal ==
  ~(SPREADSHEET_ID /\ GOOGLE_CREDENTIALS /\ LINE_ACCESS_TOKEN) =>
    (net = {} /\ pc \in {"start", "aborted"})

\* C8 as stated: a venue that contains "横浜" is classified 神奈川, whatever
\* else it contains and whatever the URL.
C8_YokohamaAlways ==
  (classified /\ Contains(arg_venue, <<27178, 27996>>)) => ret_pref = Kanagawa

\* C8 amended: a venue that contains "横浜" and no keyword of 東京, whose list
\* is consulted first, is classified 神奈川 whatever the URL.
C8_YokohamaUnlessTokyo ==
  ( /\ classified
    /\ Contains(arg_venue, <<27178, 27996>>)
    /\ ~\E k \in 1..Len(PREF_KEYWORD_MAP[1].keys) :
          Contains(LowerText(arg_venue), LowerText(PREF_KEYWORD_MAP[1].keys[k])) )
  => ret_pref = Kanagawa

\* A venue with "横浜" has been classified 神奈川 against the URL hint "tokyo".
C8_Witness ==
  /\ classified
  /\ Contains(arg_venue, <<27178, 27996>>)
  /\ arg_url = <<116, 111, 107, 121, 111>>
  /\ ret_pref = Kanagawa

\* The chunks of the bucket under dispatch: ceil(L / CHUNK_SIZE) of them, all
\* but the last CHUNK_SIZE long, the last holding the rest, and together the
\* combined text; the ones handed over so far are the first ones, in order.
ChunksInOrder ==
  pc \in {"send", "sleep"} =>
    LET text == Join(messages_map[order[d]])
        L    == Len(text)
        n    == (L + CHUNK_SIZE - 1) \div CHUNK_SIZE
        done == IF pc = "send" THEN part - 1 ELSE part
    IN  /\ L > 0
        /\ Len(parts) = n
        /\ \A k \in 1..(n - 1) : Len(parts[k]) = CHUNK_SIZE
        /\ Len(parts[n]) = L - CHUNK_SIZE * (n - 1)
        /\ Flat(parts) = text
        /\ part \in 1..n
        /\ Len(calls) >= done
        /\ SubSeq(calls, Len(calls) - done + 1, Len(calls)) = SubSeq(parts, 1, done)

\* C9: the chunking and the dispatch of the chunks: ChunksInOrder holds after
\* every step, each call of send_line_broadcast hands over the next chunk and
\* is followed by the pause, and nothing else hands over a chunk.
C9_Chunking ==
  [][ /\ ChunksInOrder'
      /\ pc = "send" => (pc' = "sleep" /\ calls' = Append(calls, parts[part]))
      /\ pc # "send" => calls' = calls
    ]_vars

\* A text of 8000 characters has gone out as chunks of 3500, 3500 and 1000.
C9_Witness ==
  /\ pc = "done"
  /\ Len(calls) = 3
  /\ Len(calls[1]) = 3500 /\ Len(calls[2]) = 3500 /\ Len(calls[3]) = 1000
  /\ \E p \in Range(prefectures) : Flat(calls) = Join(messages_map[p])

\* C10 as stated: no key is appended to the buckets twice in one run.
C10_NoKeyTwice ==
  \A k1, k2 \in 1..Len(hist) : k1 # k2 => hist[k1].key # hist[k2].key

====
